---- MODULE Spec2Model ----
(***************************************************************************)
(* Model of the crawl-orchestration engine of src/scraper.py:              *)
(* run_scrape = seed_location -> navigate_to_laptops -> apply_filters ->   *)
(* list_products -> enrich_products (fetch_product_detail per candidate,   *)
(* thread pool + semaphore, or sequential) -> write the raw JSON.          *)
(*                                                                         *)
(* URLs are the integers 1..MaxUrls (integer order stands for the string   *)
(* order that sorted() uses).  The remote browser is the environment: each *)
(* driver call that may fail is a nondeterministic choice of its outcome.  *)
(***************************************************************************)
EXTENDS Integers, Sequences, FiniteSets, TLC

\* ------------------------------------------------------------ bounds
\* URLs the listing can show, so also the longest candidate list.
MaxUrls == 2
\* Largest value of SETTINGS.threads that is tried.
MaxThreads == 2
\* Largest value of SETTINGS.max_parallel_browsers that is tried.
MaxParallel == 2
\* Largest value of SETTINGS.max_pages that is tried; the listing shows up
\* to one page tab more.
MaxPages == 2
\* Items of a listing whose pages are fixed.
MaxListed == 3
\* Cards on a results page whose links are looked at one by one.
MaxCards == 2
\* Largest rate-limit bound that is tried, in time units.
MaxDelay == 2

\* ------------------------------------------------------------ constants
\* fetch_product_detail(url, attempt=1, max_attempts=2)
max_attempts == 2
\* Python's None, for a name that was not extracted.
None == 0

Urls == 1..MaxUrls

Max(a, b) == IF a >= b THEN a ELSE b

VARIABLES
    pc,          \* position of run_scrape
    driver,      \* the listing session of run_scrape: "none", "open", "quit"
    page,        \* what the listing session shows
    raised,      \* the call whose exception left run_scrape ("none": no exception)
    nav,         \* locals of navigate_to_laptops
    flt,         \* locals of apply_filters
    hv,          \* locals of list_products
    written,     \* the raw JSON file
    SETTINGS,    \* config.SETTINGS: the fields the crawl reads
    candidates,  \* the list enrich_products was called with (as passed in)
    products,    \* the same list, mutated in place by enrich_products
    epc,         \* position of enrich_products
    fetch,       \* per candidate index: the state of its fetch task
    gate,        \* permits left in the Semaphore(max_parallel)
    collected,   \* indices whose future the as_completed loop has handled
    out,         \* the list enrich_products returned
    site,        \* the listing the browser shows (its pages, when they are fixed)
    cards,       \* the links of the cards one results page shows
    remote       \* the browser side: sessions no local of the program refers to

runVars == <<pc, driver, page, raised, nav, flt, hv, written>>
poolVars == <<SETTINGS, candidates, products, epc, fetch, gate, collected, out>>
auxVars == <<site, cards, remote>>
vars == <<runVars, poolVars, auxVars>>

\* ------------------------------------------------------------ records
\* list_products: {"name": None, ..., "url": u}; "skip" absent reads as False.
Seed(u) == [url |-> u, name |-> None, skip |-> FALSE]

NonLaptopDetailMutant(u) == [skip |-> TRUE, url |-> u, name |-> u]

\* The dict fetch_product_detail returns for a page that is not a laptop.
NonLaptopDetail(u) == [skip |-> TRUE, url |-> u, name |-> None]

FailedDetailMutant(u) == [skip |-> FALSE, url |-> u, name |-> None]

\* The dict fetch_product_detail returns when the last attempt raised
\* WebDriverException.
FailedDetail(u) == [skip |-> TRUE, url |-> u, name |-> None]

\* The dict fetch_product_detail returns for a laptop page; name is what
\* _extract_name_price_rating_on_pdp found (None when no selector matched).
AcceptedDetail(u, name) == [skip |-> FALSE, url |-> u, name |-> name]

\* What _extract_name_price_rating_on_pdp can return as the name of url u.
PdpNames(u) == {None, u}

NoResult == [kind |-> "none", detail |-> NonLaptopDetail(0), exc |-> "none"]
Returned(d) == [kind |-> "return", detail |-> d, exc |-> "none"]
Raised(e) == [kind |-> "raise", detail |-> NonLaptopDetail(0), exc |-> e]

\* A task as submitted: not started, no session, no result.
Queued ==
    [pc |-> "queued", frame |-> 0, attempts |-> 0, drivers |-> {},
     result |-> NoResult, outcome |-> "none", delays |-> <<>>]

\* ------------------------------------------------------------ settings
max_workers == Max(1, SETTINGS.threads)
max_parallel == Max(1, SETTINGS.max_parallel_browsers)
MultithreadedMutant == SETTINGS.enable_multithreading

\* `if enable_mt and max_workers > 1`
Multithreaded == SETTINGS.enable_multithreading /\ max_workers > 1

\* Strictly increasing URL lists: what list_products returns (sorted set).
RECURSIVE SortedSeq(_)
SortedSeq(S) ==
    IF S = {} THEN <<>>
    ELSE LET m == CHOOSE x \in S : \A y \in S : x <= y
         IN <<m>> \o SortedSeq(S \ {m})

SeedList(S) == LET s == SortedSeq(S) IN [i \in 1..Len(s) |-> Seed(s[i])]

\* A listing whose content is not pinned down: every harvest may show any
\* cards.
AnySite == [fixed |-> FALSE, pages |-> <<>>]

\* The pages of a listing whose content is fixed for the run.
NumPages == Len(site.pages)
SiteLinks == UNION {site.pages[k] : k \in 1..NumPages}

\* Fixed listings: up to MaxPages + 1 pages, each with at least one item, no
\* item on two pages.
FixedSites ==
    {[fixed |-> TRUE, pages |-> ps] :
        ps \in UNION {{f \in [1..n -> (SUBSET (1..MaxListed)) \ {{}}] :
                          \A a, b \in 1..n : a # b => f[a] \cap f[b] = {}}
                      : n \in 1..(MaxPages + 1)}}

\* The browser side.  setup_fails: whether the commands _build_driver sends
\* to a session it has just created can fail; orphans: the (task, attempt)
\* sessions that were created and then lost to such a failure.
ReliableRemote == [setup_fails |-> FALSE, orphans |-> {}]
FragileRemote == [setup_fails |-> TRUE, orphans |-> {}]

\* No results page is being looked at on its own.
NoCards == <<>>

\* Settings of the detail-fetch pool taken alone (the caps are not read there).
SettingsSpace ==
    [threads : 0..MaxThreads,
     max_parallel_browsers : 1..MaxParallel,
     enable_multithreading : BOOLEAN,
     max_pages : {MaxPages},
     max_products : {MaxUrls},
     rate_limit_min_s : {0},
     rate_limit_max_s : {0}]

\* Settings of a whole run: both caps below and at the size of the listing
\* (SETTINGS is used as given: no value is rejected, so a page cap of 0 or
\* below is there too and reads as 1), one gate permit (0 reads as 1), with
\* and without a second worker.
RunSettingsSpace ==
    [threads : {1, 2},
     max_parallel_browsers : {0, 1},
     enable_multithreading : {TRUE},
     max_pages : {-1, 0, MaxPages},
     max_products : {0, 1, MaxUrls},
     rate_limit_min_s : {0},
     rate_limit_max_s : {0}]

\* Settings of list_products taken alone: the page cap below and at the
\* number of pages, the item cap below, at and above the number of items.
ListSettingsSpace ==
    [threads : {1},
     max_parallel_browsers : {1},
     enable_multithreading : {FALSE},
     max_pages : 1..(MaxPages + 1),
     max_products : 1..(MaxListed + 1),
     rate_limit_min_s : {0},
     rate_limit_max_s : {0}]

\* Settings of the throttled fetch of one candidate: every pair of
\* rate-limit bounds up to MaxDelay, with and without a second worker.
RateSettingsSpace ==
    [threads : {1, 2},
     max_parallel_browsers : {1},
     enable_multithreading : {TRUE},
     max_pages : {MaxPages},
     max_products : {MaxUrls},
     rate_limit_min_s : 0..MaxDelay,
     rate_limit_max_s : 0..MaxDelay]

\* Indices of the submitted tasks (enumerate(products)).
Idx == 1..Len(fetch)

\* Sessions open in the detail-fetch phase: (task, attempt) pairs.
OpenDetailSessions == {<<i, k>> \in Idx \X (1..(max_attempts + 1)) : k \in fetch[i].drivers}

Running == {i \in Idx : fetch[i].pc \notin {"queued", "done"}}

\* ------------------------------------------------------------ enrich_products
\* Entry: `if not products: return []`, then the choice of path.
EnrichStart ==
    /\ epc = "call"
    /\ IF products = <<>>
       THEN /\ epc' = "returned"
            /\ out' = <<>>
            /\ gate' = gate
       ELSE IF Multithreaded
       THEN /\ epc' = "mt"
            /\ gate' = max_parallel
            /\ out' = out
       ELSE /\ epc' = "seq"
            /\ gate' = gate
            /\ out' = out
    /\ UNCHANGED <<SETTINGS, candidates, products, fetch, collected, runVars, auxVars>>

\* A free worker of the ThreadPoolExecutor takes the next submitted task
\* (FIFO queue) and blocks on `with gate`.
WorkerPick(i) ==
    /\ epc = "mt"
    /\ fetch[i].pc = "queued"
    /\ \A j \in Idx : j < i => fetch[j].pc # "queued"
    /\ Cardinality(Running) < max_workers
    /\ fetch' = [fetch EXCEPT ![i].pc = "gate"]
    /\ UNCHANGED <<SETTINGS, candidates, products, epc, gate, collected, out, runVars, auxVars>>

\* guarded_fetch: gate.acquire(), then the call of fetch_product_detail.
AcquireGate(i) ==
    /\ epc = "mt"
    /\ fetch[i].pc = "gate"
    /\ gate > 0
    /\ gate' = gate - 1
    /\ fetch' = [fetch EXCEPT ![i].pc = "build", ![i].frame = 1, ![i].attempts = 1]
    /\ UNCHANGED <<SETTINGS, candidates, products, epc, collected, out, runVars, auxVars>>

\* Sequential path: `for p in products: fetch_product_detail(p["url"])`,
\* the next candidate only after the previous one was handled.
SeqStart(i) ==
    /\ epc = "seq"
    /\ fetch[i].pc = "queued"
    /\ \A j \in Idx : j < i => j \in collected
    /\ fetch' = [fetch EXCEPT ![i].pc = "build", ![i].frame = 1, ![i].attempts = 1]
    /\ UNCHANGED <<SETTINGS, candidates, products, epc, gate, collected, out, runVars, auxVars>>

\* ------------------------------------------------------------ fetch_product_detail
\* `if attempt < max_attempts`
RetryMutant(attempt) == attempt <= max_attempts
Retry(attempt) == attempt < max_attempts

\* `except WebDriverException`: retry by a re-entrant call from inside the
\* handler (this frame's driver is still open: its finally has not run), or
\* return the skip dict.
OnWebDriverException(f, u) ==
    IF Retry(f.frame)
    THEN [f EXCEPT !.pc = "build", !.frame = f.frame + 1, !.attempts = f.attempts + 1]
    ELSE [f EXCEPT !.pc = "finally", !.result = Returned(FailedDetail(u)),
                   !.outcome = "wde_exhausted"]

\* Any other exception leaves through the finally clause.
OnOtherException(f) ==
    [f EXCEPT !.pc = "finally", !.result = Raised("Exception"), !.outcome = "exception"]

\* driver = _build_driver(): a new session; or an exception before the
\* session exists; or an exception of one of the unguarded commands sent to
\* the session after webdriver.Chrome() created it (execute_cdp_cmd,
\* implicitly_wait, set_*_timeout): the session exists, `driver` is still
\* None, so the finally clause will not quit it.
BuildDriver(i) ==
    /\ fetch[i].pc = "build"
    /\ \/ /\ fetch' = [fetch EXCEPT ![i].pc = "body",
                                    ![i].drivers = fetch[i].drivers \cup {fetch[i].frame}]
          /\ remote' = remote
       \/ /\ fetch' = [fetch EXCEPT ![i] = OnWebDriverException(fetch[i], products[i].url)]
          /\ remote' = remote
       \/ /\ fetch' = [fetch EXCEPT ![i] = OnOtherException(fetch[i])]
          /\ remote' = remote
       \/ /\ remote.setup_fails
          /\ remote' = [remote EXCEPT !.orphans = remote.orphans \cup {<<i, fetch[i].frame>>}]
          /\ \/ fetch' = [fetch EXCEPT ![i] = OnWebDriverException(fetch[i], products[i].url)]
             \/ fetch' = [fetch EXCEPT ![i] = OnOtherException(fetch[i])]
    /\ UNCHANGED <<SETTINGS, candidates, products, epc, gate, collected, out, runVars,
                   site, cards>>

\* _stable_get .. return: the page work of one attempt, with its session open.
FetchBody(i) ==
    /\ fetch[i].pc = "body"
    /\ LET f == fetch[i]
           u == products[i].url
       IN \/ fetch' = [fetch EXCEPT ![i] =
                [f EXCEPT !.pc = "finally", !.result = Returned(NonLaptopDetail(u)),
                          !.outcome = "not_laptop"]]
          \/ \E n \in PdpNames(u) :
                fetch' = [fetch EXCEPT ![i] =
                    [f EXCEPT !.pc = "finally", !.result = Returned(AcceptedDetail(u, n)),
                              !.outcome = "accepted"]]
          \/ fetch' = [fetch EXCEPT ![i] = OnWebDriverException(f, u)]
          \/ fetch' = [fetch EXCEPT ![i] = OnOtherException(f)]
    /\ UNCHANGED <<SETTINGS, candidates, products, epc, gate, collected, out, runVars, auxVars>>

UnwindMutant(f) ==
    [f EXCEPT !.frame = 0, !.pc = IF epc = "mt" THEN "release" ELSE "done"]

\* Leaving frame k: back in the caller's frame (the handler that made the
\* re-entrant call, which then runs its own finally), or out of the task.
Unwind(f) ==
    IF f.frame > 1
    THEN [f EXCEPT !.frame = f.frame - 1, !.pc = "finally"]
    ELSE [f EXCEPT !.frame = 0, !.pc = IF epc = "mt" THEN "release" ELSE "done"]

\* `finally: if driver: driver.quit()`; a returned value goes on to the
\* rate_limited wrapper, an exception propagates.
Finally(i) ==
    /\ fetch[i].pc = "finally"
    /\ LET f == [fetch[i] EXCEPT !.drivers = fetch[i].drivers \ {fetch[i].frame}]
       IN fetch' = [fetch EXCEPT ![i] =
              IF f.result.kind = "return" THEN [f EXCEPT !.pc = "throttle"] ELSE Unwind(f)]
    /\ UNCHANGED <<SETTINGS, candidates, products, epc, gate, collected, out, runVars, auxVars>>

UniformMutant(a, b) == a..(b + 1)

\* random.uniform(a, b) = a + (b - a) * random(): a value between the two
\* bounds, whichever is the larger (in whole time units).
Uniform(a, b) == IF a <= b THEN a..b ELSE b..a

\* utils.rate_limited: `result = fn(...); time.sleep(random.uniform(..)); return result`
\* with the bounds @rate_limited was given, SETTINGS.rate_limit_min_s/_max_s.
Throttle(i) ==
    /\ fetch[i].pc = "throttle"
    /\ \E d \in Uniform(SETTINGS.rate_limit_min_s, SETTINGS.rate_limit_max_s) :
          fetch' = [fetch EXCEPT ![i] =
              Unwind([fetch[i] EXCEPT !.delays = Append(fetch[i].delays, d)])]
    /\ UNCHANGED <<SETTINGS, candidates, products, epc, gate, collected, out, runVars, auxVars>>

ReleaseMutant(g) == g

\* Semaphore.release() at the end of `with gate`.
Release(g) == g + 1

\* End of `with gate`: the permit goes back and the future completes.
ReleaseGate(i) ==
    /\ fetch[i].pc = "release"
    /\ gate' = Release(gate)
    /\ fetch' = [fetch EXCEPT ![i].pc = "done"]
    /\ UNCHANGED <<SETTINGS, candidates, products, epc, collected, out, runVars, auxVars>>

\* ------------------------------------------------------------ result assembly
\* Which exceptions `except Exception` around fut.result() catches.
CaughtByEnrichMutant(e) == e = "WebDriverException"
CaughtByEnrich(e) == e \in {"WebDriverException", "Exception"}

\* The slot a completed task's result is written to: fut_to_idx[fut].
SlotOfMutant(i) == Cardinality(collected) + 1
SlotOf(i) == i

\* The body of the try around fut.result() / fetch_product_detail(p["url"]):
\* a raised exception or a skip dict sets only "skip"; otherwise every key of
\* the detail but "skip" is copied (price, rating, specs and reviews travel
\* with name and are not modelled apart).
Merge(p, r) ==
    IF r.kind = "raise" THEN [p EXCEPT !.skip = TRUE]
    ELSE IF r.detail.skip THEN [p EXCEPT !.skip = TRUE]
    ELSE [p EXCEPT !.url = r.detail.url, !.name = r.detail.name]

Collect(i) ==
    /\ epc \in {"mt", "seq"}
    /\ fetch[i].pc = "done"
    /\ i \notin collected
    /\ LET r == fetch[i].result
       IN IF r.kind = "raise" /\ ~CaughtByEnrich(r.exc)
          THEN /\ epc' = "raised"
               /\ UNCHANGED <<products, collected>>
          ELSE /\ products' = [products EXCEPT ![SlotOf(i)] = Merge(products[SlotOf(i)], r)]
               /\ collected' = collected \cup {i}
               /\ epc' = epc
    /\ UNCHANGED <<SETTINGS, candidates, fetch, gate, out, runVars, auxVars>>

KeptMutant(ps) == ps

\* `kept = [p for p in products if not p.get("skip")]`
RECURSIVE Kept(_)
Kept(ps) ==
    IF ps = <<>> THEN <<>>
    ELSE (IF Head(ps).skip THEN <<>> ELSE <<Head(ps)>>) \o Kept(Tail(ps))

EnrichReturn ==
    /\ epc \in {"mt", "seq"}
    /\ collected = Idx
    /\ out' = Kept(products)
    /\ epc' = "returned"
    /\ UNCHANGED <<SETTINGS, candidates, products, fetch, gate, collected, runVars, auxVars>>

\* ------------------------------------------------------------ run_scrape
\* run_scrape is `try: ... finally: driver.quit()` with no except clause:
\* an exception of any of the four calls leaves run_scrape after the finally.
PropagatesMutant(call) == call # "navigate_to_laptops"
Propagates(call) == TRUE

Nav0 == [pos |-> 0, tried |-> {}, detours |-> <<>>, result |-> "none"]
Flt0 ==
    [step |-> "sidebar", b |-> 1, attempted |-> {}, fallbacks |-> {}, applied |-> {},
     result |-> "none"]
Hv0 ==
    [mode |-> "none", known |-> <<1>>, i |-> 1, all_urls |-> {}, visited_pages |-> 0,
     total_hint |-> None, extractions |-> 0, navigations |-> 0, new |-> {}, before |-> 0]
NotWritten == [done |-> FALSE, items |-> <<>>]

\* The statement after a call that raised: the finally clause (the exception
\* is in flight).
Raise(call, next) ==
    /\ raised' = call
    /\ pc' = IF Propagates(call) THEN "finally" ELSE next

\* driver = _build_driver(), before the try.
RunBuildDriver ==
    /\ pc = "start"
    /\ \/ /\ driver' = "open"
          /\ page' = "blank"
          /\ pc' = "seed"
          /\ raised' = raised
       \/ /\ driver' = driver
          /\ page' = page
          /\ pc' = "aborted"
          /\ raised' = "_build_driver"
    /\ UNCHANGED <<nav, flt, hv, written, poolVars, auxVars>>

\* seed_location: driver.get(home) is not guarded, the two add_cookie are.
SeedLocation ==
    /\ pc = "seed"
    /\ \/ /\ page' = "home"
          /\ pc' = "navigate"
          /\ raised' = raised
       \/ /\ page' = page
          /\ Raise("seed_location", "navigate")
    /\ UNCHANGED <<driver, nav, flt, hv, written, poolVars, auxVars>>

\* ------------------------------------------------------------ navigate_to_laptops
\* len(PLP_URLS)
NumPlpUrls == 2
PlpIdx == 1..NumPlpUrls

\* What a page can be after a navigation.
PageShapes == {"listing", "splash", "other"}

\* _assert_laptop_plp_loaded: returns when the splash or a landmark is
\* found, raises TimeoutException when neither shows up in time; the
\* find_elements of its selector loop is not guarded.
AssertPlpLoaded(shape) ==
    {"error"} \cup (IF shape \in {"listing", "splash"} THEN {"return"} ELSE {"timeout"})

\* _is_country_splash: find_elements, False when it raises.
IsCountrySplash(shape) == IF shape = "splash" THEN {TRUE, FALSE} ELSE {FALSE}

\* driver.get(home) and the guarded cookies, before the loop.
NavHome ==
    /\ pc = "navigate"
    /\ nav.pos = 0
    /\ \/ /\ nav' = [nav EXCEPT !.pos = 1]
          /\ page' = "home"
          /\ UNCHANGED <<pc, raised>>
       \/ /\ nav' = [nav EXCEPT !.result = "error"]
          /\ page' = page
          /\ Raise("navigate_to_laptops", "filters")
    /\ UNCHANGED <<driver, flt, hv, written, poolVars, auxVars>>

\* Which exceptions of the readiness check the loop's except clause catches
\* (`except TimeoutException`); driver.get(url) is outside the try.
NavCatches(what) == what = "timeout"

NextEntryMutant(pos) == pos

\* `continue` in the except clause: on to the next entry URL of the for loop.
NextEntry(pos) == pos + 1

\* One pass of `for i, url in enumerate(PLP_URLS, 1)`.
NavAttempt ==
    /\ pc = "navigate"
    /\ nav.result = "none"
    /\ nav.pos \in PlpIdx
    /\ LET n == [nav EXCEPT !.tried = nav.tried \cup {nav.pos}]
       IN \/ \* driver.get(url) raises
             /\ nav' = [n EXCEPT !.result = "error"]
             /\ page' = page
             /\ Raise("navigate_to_laptops", "filters")
          \/ \E shape \in PageShapes : \E a1 \in AssertPlpLoaded(shape) :
                IF a1 # "return"
                THEN /\ page' = shape
                     /\ IF NavCatches(a1)
                        THEN /\ nav' = [n EXCEPT !.pos = NextEntry(nav.pos)]
                             /\ UNCHANGED <<pc, raised>>
                        ELSE /\ nav' = [n EXCEPT !.result = "error"]
                             /\ Raise("navigate_to_laptops", "filters")
                ELSE \E seen \in IsCountrySplash(shape) :
                     IF ~seen
                     THEN /\ page' = shape
                          /\ nav' = [n EXCEPT !.result = "ready"]
                          /\ pc' = "filters"
                          /\ raised' = raised
                     ELSE \* handle_country_splash (never raises), then the re-check
                          \E shape2 \in PageShapes : \E a2 \in AssertPlpLoaded(shape2) :
                             /\ page' = shape2
                             /\ LET d == [n EXCEPT !.detours = Append(n.detours, nav.pos)]
                                IN IF a2 = "return"
                                   THEN /\ nav' = [d EXCEPT !.result = "ready"]
                                        /\ pc' = "filters"
                                        /\ raised' = raised
                                   ELSE IF NavCatches(a2)
                                   THEN /\ nav' = [d EXCEPT !.pos = NextEntry(nav.pos)]
                                        /\ UNCHANGED <<pc, raised>>
                                   ELSE /\ nav' = [d EXCEPT !.result = "error"]
                                        /\ Raise("navigate_to_laptops", "filters")
    /\ UNCHANGED <<driver, flt, hv, written, poolVars, auxVars>>

\* After the loop: `raise TimeoutException("Could not load ...")`.
NavExhausted ==
    /\ pc = "navigate"
    /\ nav.result = "none"
    /\ nav.pos = NumPlpUrls + 1
    /\ nav' = [nav EXCEPT !.result = "timeout"]
    /\ Raise("navigate_to_laptops", "filters")
    /\ UNCHANGED <<driver, page, flt, hv, written, poolVars, auxVars>>

\* ------------------------------------------------------------ apply_filters
\* SETTINGS.top_brands
top_brands == <<"Apple", "Dell", "HP">>

\* _click_checkbox_by: True when the element was found and clicked, False on
\* any exception.
ClickCheckboxBy == BOOLEAN

\* The calls between two filter operations that no try guards
\* (_wait_for_grid_refresh, _dismiss_backdrops: find_elements may raise).
HelperOutcomes == {"ok", "raise"}

\* `WebDriverWait(driver, 12).until(... ".sidebar-container")`, not guarded.
FilterSidebar ==
    /\ pc = "filters"
    /\ flt.step = "sidebar"
    /\ nav' = Nav0
    /\ \/ /\ flt' = [flt EXCEPT !.step = "rating"]
          /\ UNCHANGED <<pc, raised>>
       \/ /\ flt' = [flt EXCEPT !.result = "raised"]
          /\ Raise("apply_filters", "list")
    /\ UNCHANGED <<driver, page, hv, written, poolVars, auxVars>>

\* The rating checkbox, then _wait_for_grid_refresh and _dismiss_backdrops.
FilterRating ==
    /\ pc = "filters"
    /\ flt.step = "rating"
    /\ \E ok \in ClickCheckboxBy : \E h \in HelperOutcomes :
          LET f == [flt EXCEPT !.attempted = flt.attempted \cup {"rating"},
                               !.applied = IF ok THEN flt.applied \cup {"rating"}
                                           ELSE flt.applied]
          IN IF h = "ok"
             THEN /\ flt' = [f EXCEPT !.step = "brand"]
                  /\ UNCHANGED <<pc, raised>>
             ELSE /\ flt' = [f EXCEPT !.result = "raised"]
                  /\ Raise("apply_filters", "list")
    /\ UNCHANGED <<driver, page, nav, hv, written, poolVars, auxVars>>

NextFilterStepMutant(b) == "price"

\* `for b in SETTINGS.top_brands:` then `# Price`: the step after brand b.
NextFilterStep(b) == IF b = Len(top_brands) THEN "price" ELSE "brand"

\* One pass of `for b in SETTINGS.top_brands`: the primary selector, the
\* fallback selector only `if not ok`, then the unguarded helpers.
FilterBrand ==
    /\ pc = "filters"
    /\ flt.step = "brand"
    /\ flt.b <= Len(top_brands)
    /\ \E ok \in ClickCheckboxBy : \E ok2 \in ClickCheckboxBy : \E h \in HelperOutcomes :
          LET name == top_brands[flt.b]
              f == [flt EXCEPT
                      !.attempted = flt.attempted \cup {name},
                      !.fallbacks = IF ok THEN flt.fallbacks ELSE flt.fallbacks \cup {name},
                      !.applied = IF ok \/ ok2 THEN flt.applied \cup {name}
                                  ELSE flt.applied]
          IN /\ (ok => ok2)
             /\ IF h = "ok"
                THEN /\ flt' = [f EXCEPT !.b = flt.b + 1,
                                         !.step = NextFilterStep(flt.b)]
                     /\ UNCHANGED <<pc, raised>>
                ELSE /\ flt' = [f EXCEPT !.result = "raised"]
                     /\ Raise("apply_filters", "list")
    /\ UNCHANGED <<driver, page, nav, hv, written, poolVars, auxVars>>

\* _set_price_range, called without a guard: raises when the price facet,
\* one of its inputs or its button is not found (or a helper raises);
\* a failed click falls back to the Enter key and still returns.
SetPriceRange == {"submitted", "unsubmitted", "raise"}

FilterPrice ==
    /\ pc = "filters"
    /\ flt.step = "price"
    /\ \E r \in SetPriceRange :
          LET f == [flt EXCEPT !.attempted = flt.attempted \cup {"price"},
                               !.applied = IF r = "submitted"
                                           THEN flt.applied \cup {"price"}
                                           ELSE flt.applied]
          IN IF r # "raise"
             THEN /\ flt' = [f EXCEPT !.step = "done", !.result = "returned"]
                  /\ pc' = "list"
                  /\ raised' = raised
             ELSE /\ flt' = [f EXCEPT !.result = "raised"]
                  /\ Raise("apply_filters", "list")
    /\ UNCHANGED <<driver, page, nav, hv, written, poolVars, auxVars>>

\* ------------------------------------------------------------ list_products
max_pagesMutant == Max(1, SETTINGS.max_pages) + 1
max_pages == Max(1, SETTINGS.max_pages)
max_products == Max(1, SETTINGS.max_products)

\* _results_count_hint: None, or the advertised number of results.
ResultsCountHint ==
    IF site.fixed THEN {None, Cardinality(SiteLinks)} ELSE {None} \cup Urls

\* known_pages: [1] without page tabs, else the sorted tab numbers.
KnownPages ==
    IF site.fixed THEN {<<1>>, [k \in 1..NumPages |-> k]}
    ELSE {[k \in 1..n |-> k] : n \in 1..(MaxPages + 1)}

\* harvest_current with page cp of the listing open: the product URLs of
\* the cards shown.  A fixed listing shows its page cp; asked for a page it
\* does not have it shows nothing, or its first or its last page again.
HarvestCurrent(cp) ==
    IF ~site.fixed THEN SUBSET Urls
    ELSE IF cp \in 1..NumPages THEN {site.pages[cp]}
    ELSE {{}, site.pages[1], site.pages[NumPages]}

MergeUrlsMutant(all, new) == new

\* `all_urls |= new`
MergeUrls(all, new) == all \cup new

\* _wait(body) and the reads before the loops.
ListStart ==
    /\ pc = "list"
    /\ hv.mode = "none"
    /\ flt' = Flt0
    /\ \/ \E hint \in ResultsCountHint : \E known \in KnownPages :
             /\ hv' = [hv EXCEPT !.total_hint = hint, !.known = known,
                                 !.mode = IF Len(known) > 1 THEN "tabs" ELSE "cp"]
             /\ UNCHANGED <<pc, raised>>
       \/ /\ hv' = hv
          /\ Raise("list_products", "finally")
    /\ UNCHANGED <<driver, page, nav, written, poolVars, auxVars>>

\* One pass of `for cp in known_pages` (page-tab strategy).
TabStep ==
    /\ pc = "list"
    /\ hv.mode = "tabs"
    /\ IF \/ hv.i > Len(hv.known)
          \/ hv.visited_pages >= max_pages
          \/ Cardinality(hv.all_urls) >= max_products
       THEN /\ hv' = [hv EXCEPT !.mode = "done"]
            /\ UNCHANGED <<pc, raised, page>>
       ELSE \/ \* driver.get(page_url) raises
               /\ hv' = hv
               /\ page' = page
               /\ Raise("list_products", "finally")
            \/ \E shape \in PageShapes : \E a \in AssertPlpLoaded(shape) :
                  /\ page' = shape
                  /\ LET h == [hv EXCEPT !.navigations = hv.navigations + 1]
                     IN IF a = "timeout"
                        THEN /\ hv' = [h EXCEPT !.i = hv.i + 1]
                             /\ UNCHANGED <<pc, raised>>
                        ELSE IF a = "error"
                        THEN /\ hv' = h
                             /\ Raise("list_products", "finally")
                        ELSE \/ \E new \in HarvestCurrent(hv.known[hv.i]) :
                                   /\ hv' = [h EXCEPT !.all_urls = MergeUrls(hv.all_urls, new),
                                                      !.new = new,
                                                      !.before = Cardinality(hv.all_urls),
                                                      !.visited_pages = hv.visited_pages + 1,
                                                      !.extractions = hv.extractions + 1,
                                                      !.i = hv.i + 1]
                                   /\ UNCHANGED <<pc, raised>>
                             \/ /\ hv' = h
                                /\ Raise("list_products", "finally")
    /\ UNCHANGED <<driver, nav, flt, written, poolVars, auxVars>>

\* One pass of `while cp <= max_pages and len(all_urls) < max_products`
\* (cp= strategy, with the show-more/next click).
CpStep ==
    /\ pc = "list"
    /\ hv.mode = "cp"
    /\ IF ~(hv.i <= max_pages /\ Cardinality(hv.all_urls) < max_products)
       THEN /\ hv' = [hv EXCEPT !.mode = "done"]
            /\ UNCHANGED <<pc, raised, page>>
       ELSE \/ \* driver.get(page_url) or harvest_current raises
               /\ hv' = hv
               /\ page' = page
               /\ Raise("list_products", "finally")
            \/ \E shape \in (IF hv.i > 1 THEN PageShapes ELSE {page}) :
               \E a \in (IF hv.i > 1 THEN AssertPlpLoaded(shape) ELSE {"return"}) :
                  /\ page' = shape
                  /\ LET h == [hv EXCEPT !.navigations =
                                  hv.navigations + (IF hv.i > 1 THEN 1 ELSE 0)]
                     IN IF a = "timeout"
                        THEN /\ hv' = [h EXCEPT !.mode = "done"]
                             /\ UNCHANGED <<pc, raised>>
                        ELSE IF a = "error"
                        THEN /\ hv' = h
                             /\ Raise("list_products", "finally")
                        ELSE \E new \in HarvestCurrent(hv.i) : \E clicked \in BOOLEAN :
                             \E more \in (IF clicked THEN HarvestCurrent(hv.i + 1) ELSE {{}}) :
                             LET before == Cardinality(hv.all_urls)
                                 first == MergeUrls(hv.all_urls, new)
                                 nothing == Cardinality(first) = before
                                 all == IF nothing /\ clicked THEN MergeUrls(first, more) ELSE first
                                 stop == \/ nothing /\ ~clicked
                                         \/ /\ hv.total_hint # None
                                            /\ Cardinality(all) >= hv.total_hint
                             IN /\ (~nothing => ~clicked)
                                /\ hv' = [h EXCEPT
                                       !.all_urls = all,
                                       !.new = new \cup more,
                                       !.before = before,
                                       !.visited_pages = hv.visited_pages + 1,
                                       !.extractions = hv.extractions
                                                       + (IF nothing /\ clicked THEN 2 ELSE 1),
                                       !.i = IF stop THEN hv.i ELSE hv.i + 1,
                                       !.mode = IF stop THEN "done" ELSE "cp"]
                                /\ UNCHANGED <<pc, raised>>
    /\ UNCHANGED <<driver, nav, flt, written, poolVars, auxVars>>

CappedMutant(all) == {all}

\* `all_urls = set(list(all_urls)[:max_products])`: the first max_products
\* elements in the set's iteration order, which for strings is arbitrary.
Capped(all) ==
    IF Cardinality(all) > max_products
    THEN {S \in SUBSET all : Cardinality(S) = max_products}
    ELSE {all}

\* The cap and `items = [... for u in sorted(all_urls)]`; list_products returns.
ListFinish ==
    /\ pc = "list"
    /\ hv.mode = "done"
    /\ \E S \in Capped(hv.all_urls) :
          /\ products' = SeedList(S)
          /\ hv' = [hv EXCEPT !.mode = "returned", !.all_urls = S]
    /\ pc' = "finally"
    /\ UNCHANGED <<driver, page, raised, nav, flt, written,
                   SETTINGS, candidates, epc, fetch, gate, collected, out, auxVars>>

\* ------------------------------------------------------------ run_scrape, end
\* `finally: driver.quit()`; then the exception leaves run_scrape, or
\* enrich_products(products) is called.
QuitMutant(d) == d

\* try: driver.quit() / except Exception: pass -- the session is gone whatever
\* state it was in.
Quit(d) == "quit"

RunFinally ==
    /\ pc = "finally"
    /\ driver' = Quit(driver)
    /\ page' = "closed"
    /\ IF raised # "none" /\ Propagates(raised)
       THEN /\ pc' = "aborted"
            /\ UNCHANGED <<hv, candidates, fetch, epc>>
       ELSE /\ pc' = "enrich"
            /\ hv' = Hv0
            /\ candidates' = products
            /\ fetch' = [i \in 1..Len(products) |-> Queued]
            /\ epc' = "call"
    /\ UNCHANGED <<raised, nav, flt, written, SETTINGS, products, gate, collected, out,
                   auxVars>>

\* `output_json.write_text(json.dumps(products))` with what enrich_products
\* returned; an exception of enrich_products leaves run_scrape.
RunWrite ==
    /\ pc = "enrich"
    /\ epc \in {"returned", "raised"}
    /\ IF epc = "returned"
       THEN /\ written' = [done |-> TRUE, items |-> out]
            /\ pc' = "returned"
            /\ raised' = raised
       ELSE /\ written' = written
            /\ pc' = "aborted"
            /\ raised' = "enrich_products"
    /\ UNCHANGED <<driver, page, nav, flt, hv, poolVars, auxVars>>

\* ------------------------------------------------------------ the pool alone
InitPool ==
    /\ pc = "enrich"
    /\ driver = "quit"
    /\ page = "closed"
    /\ raised = "none"
    /\ nav = Nav0
    /\ flt = Flt0
    /\ hv = Hv0
    /\ written = NotWritten
    /\ SETTINGS \in SettingsSpace
    /\ \E S \in SUBSET Urls : candidates = SeedList(S)
    /\ products = candidates
    /\ epc = "call"
    /\ fetch = [i \in 1..Len(candidates) |-> Queued]
    /\ gate = 0
    /\ collected = {}
    /\ out = <<>>
    /\ site = AnySite
    /\ cards = NoCards
    /\ remote = ReliableRemote

NextPool ==
    \/ EnrichStart
    \/ \E i \in Idx : WorkerPick(i)
    \/ \E i \in Idx : AcquireGate(i)
    \/ \E i \in Idx : SeqStart(i)
    \/ \E i \in Idx : BuildDriver(i)
    \/ \E i \in Idx : FetchBody(i)
    \/ \E i \in Idx : Finally(i)
    \/ \E i \in Idx : Throttle(i)
    \/ \E i \in Idx : ReleaseGate(i)
    \/ \E i \in Idx : Collect(i)
    \/ EnrichReturn

SpecPool == InitPool /\ [][NextPool]_vars

\* ------------------------------------------------------------ the throttled fetch
\* enrich_products called with one candidate, under any rate-limit bounds.
InitRate ==
    /\ pc = "enrich"
    /\ driver = "quit"
    /\ page = "closed"
    /\ raised = "none"
    /\ nav = Nav0
    /\ flt = Flt0
    /\ hv = Hv0
    /\ written = NotWritten
    /\ SETTINGS \in RateSettingsSpace
    /\ candidates = SeedList({1})
    /\ products = candidates
    /\ epc = "call"
    /\ fetch = [i \in 1..Len(candidates) |-> Queued]
    /\ gate = 0
    /\ collected = {}
    /\ out = <<>>
    /\ site = AnySite
    /\ cards = NoCards
    /\ remote = ReliableRemote

SpecRate == InitRate /\ [][NextPool]_vars

\* ------------------------------------------------------------ the pool under fair scheduling
\* Settings with one worker (the sequential path) and with two, and a gate
\* smaller than, equal to (one worker) and larger than the worker count.
LiveSettingsSpace ==
    [threads : {1, 2},
     max_parallel_browsers : {1, 3},
     enable_multithreading : {TRUE},
     max_pages : {MaxPages},
     max_products : {MaxUrls},
     rate_limit_min_s : {0},
     rate_limit_max_s : {0}]

InitLive ==
    /\ pc = "enrich"
    /\ driver = "quit"
    /\ page = "closed"
    /\ raised = "none"
    /\ nav = Nav0
    /\ flt = Flt0
    /\ hv = Hv0
    /\ written = NotWritten
    /\ SETTINGS \in LiveSettingsSpace
    /\ candidates = SeedList(Urls)
    /\ products = candidates
    /\ epc = "call"
    /\ fetch = [i \in 1..Len(candidates) |-> Queued]
    /\ gate = 0
    /\ collected = {}
    /\ out = <<>>
    /\ site = AnySite
    /\ cards = NoCards
    /\ remote = ReliableRemote

\* The executor's threads and the thread of enrich_products keep running:
\* a step that stays possible is eventually taken (every remote call is
\* bounded by a timeout).
SpecLive == InitLive /\ [][NextPool]_vars /\ WF_vars(NextPool)

\* ------------------------------------------------------------ the sessions of a fetch
\* enrich_products called with one candidate, on a browser side where the
\* set-up of a new session can fail.
InitSession ==
    /\ pc = "enrich"
    /\ driver = "quit"
    /\ page = "closed"
    /\ raised = "none"
    /\ nav = Nav0
    /\ flt = Flt0
    /\ hv = Hv0
    /\ written = NotWritten
    /\ SETTINGS \in {s \in RateSettingsSpace :
                       s.rate_limit_min_s = 0 /\ s.rate_limit_max_s = 0}
    /\ candidates = SeedList({1})
    /\ products = candidates
    /\ epc = "call"
    /\ fetch = [i \in 1..Len(candidates) |-> Queued]
    /\ gate = 0
    /\ collected = {}
    /\ out = <<>>
    /\ site = AnySite
    /\ cards = NoCards
    /\ remote = FragileRemote

SpecSession == InitSession /\ [][NextPool]_vars

\* ------------------------------------------------------------ list_products alone
\* list_products called on a results page of a fixed listing.
InitList ==
    /\ pc = "list"
    /\ driver = "open"
    /\ page = "listing"
    /\ raised = "none"
    /\ nav = Nav0
    /\ flt = Flt0
    /\ hv = Hv0
    /\ written = NotWritten
    /\ SETTINGS \in ListSettingsSpace
    /\ candidates = <<>>
    /\ products = <<>>
    /\ epc = "idle"
    /\ fetch = <<>>
    /\ gate = 0
    /\ collected = {}
    /\ out = <<>>
    /\ site \in FixedSites
    /\ cards = NoCards
    /\ remote = ReliableRemote

NextList ==
    \/ ListStart
    \/ TabStep
    \/ CpStep
    \/ ListFinish

SpecList == InitList /\ [][NextList]_vars

\* ------------------------------------------------------------ link extraction alone
\* The href of a card's anchor, as far as the extraction reads it: what kind
\* of path it has ("product": /product/<name>/<SKU>; "site":
\* /site/<..>/<..>/p; "other": anything else, or not on bestbuy.com), its
\* query parameters in the order written, and whether it has a #fragment.
QueryParams == {"skuId", "ref"}
Queries ==
    {<<>>} \cup {<<p>> : p \in QueryParams}
           \cup {<<p, q>> : <<p, q>> \in {pq \in QueryParams \X QueryParams : pq[1] # pq[2]}}
Hrefs == [style : {"product", "site", "other"}, query : Queries, fragment : BOOLEAN]

\* href.split("#")[0]
StripFragment(h) == [h EXCEPT !.fragment = FALSE]

\* `"bestbuy.com" in href and PRODUCT_HREF_RE.search(href)`: the /product/
\* form matches on its path, the /site/ form only with skuId written first
\* after the `?`.
IsProductHref(h) ==
    \/ h.style = "product"
    \/ h.style = "site" /\ h.query # <<>> /\ h.query[1] = "skuId"

\* _extract_product_urls_from_results over the cards shown; lost: the cards
\* whose anchors could not be read (both try blocks raised).
ExtractProductUrlsFromResults(cs, lost) ==
    {StripFragment(cs[k]) : k \in {j \in 1..Len(cs) : j \notin lost /\ IsProductHref(cs[j])}}

\* Results pages: up to MaxCards cards, one link each.
CardPages == UNION {[1..n -> Hrefs] : n \in 0..MaxCards}

\* harvest_current on the page shown, merged into the running set
\* (`all_urls |= harvest_current()`); the page may be harvested again.
HarvestCards ==
    /\ pc = "extract"
    /\ hv.extractions < 2
    /\ \E lost \in SUBSET (1..Len(cards)) :
          LET new == ExtractProductUrlsFromResults(cards, lost)
          IN hv' = [hv EXCEPT !.all_urls = MergeUrls(hv.all_urls, new),
                              !.new = new,
                              !.before = Cardinality(hv.all_urls),
                              !.extractions = hv.extractions + 1]
    /\ UNCHANGED <<pc, driver, page, raised, nav, flt, written, poolVars, auxVars>>

InitExtract ==
    /\ pc = "extract"
    /\ driver = "open"
    /\ page = "listing"
    /\ raised = "none"
    /\ nav = Nav0
    /\ flt = Flt0
    /\ hv = Hv0
    /\ written = NotWritten
    /\ SETTINGS \in {s \in ListSettingsSpace : s.max_pages = 1 /\ s.max_products = 1}
    /\ candidates = <<>>
    /\ products = <<>>
    /\ epc = "idle"
    /\ fetch = <<>>
    /\ gate = 0
    /\ collected = {}
    /\ out = <<>>
    /\ site = AnySite
    /\ cards \in CardPages
    /\ remote = ReliableRemote

NextExtract == HarvestCards

SpecExtract == InitExtract /\ [][NextExtract]_vars

\* ------------------------------------------------------------ a whole run
Init ==
    /\ pc = "start"
    /\ driver = "none"
    /\ page = "closed"
    /\ raised = "none"
    /\ nav = Nav0
    /\ flt = Flt0
    /\ hv = Hv0
    /\ written = NotWritten
    /\ SETTINGS \in RunSettingsSpace
    /\ candidates = <<>>
    /\ products = <<>>
    /\ epc = "idle"
    /\ fetch = <<>>
    /\ gate = 0
    /\ collected = {}
    /\ out = <<>>
    /\ site = AnySite
    /\ cards = NoCards
    /\ remote = ReliableRemote

Next ==
    \/ RunBuildDriver
    \/ SeedLocation
    \/ NavHome
    \/ NavAttempt
    \/ NavExhausted
    \/ FilterSidebar
    \/ FilterRating
    \/ FilterBrand
    \/ FilterPrice
    \/ ListStart
    \/ TabStep
    \/ CpStep
    \/ ListFinish
    \/ RunFinally
    \/ RunWrite
    \/ NextPool

Spec == Init /\ [][Next]_vars

\* ============================================================ claims
\* What the fetch of candidate i ended as.
AttemptsDone(i) == fetch[i].pc = "done"

\* The record candidate i must end as, from its own seed and its own
\* result alone.
Expected(i) == Merge(candidates[i], fetch[i].result)

RECURSIVE SumAttempts(_)
SumAttempts(n) == IF n = 0 THEN 0 ELSE fetch[n].attempts + SumAttempts(n - 1)

\* C1 (as claimed): in the multithreaded path no more than C =
\* max_parallel detail-fetch sessions are open at once, also while a failed
\* first attempt is being retried.
C1_ConcurrencyBound ==
    (/\ epc = "mt"
     /\ SETTINGS.max_parallel_browsers >= 1
     /\ SETTINGS.threads >= SETTINGS.max_parallel_browsers)
       => Cardinality(OpenDetailSessions) <= SETTINGS.max_parallel_browsers

C3_RetryBound ==
    /\ \A i \in Idx : fetch[i].attempts <= max_attempts
    /\ SumAttempts(Len(fetch)) <= max_attempts * Len(candidates)

\* C3 witness: a finished task that used its retry.
C3_Witness ==
    \E i \in Idx : AttemptsDone(i) /\ fetch[i].attempts = max_attempts

\* C4: a result is written to the record at its candidate's own index
\* whatever the completion order, and the returned list is the kept records
\* in harvest order, a function of the per-candidate results only.
C4_HarvestOrder ==
    /\ epc \in {"mt", "seq", "returned"} =>
          \A i \in Idx :
             products[i] = IF i \in collected THEN Expected(i) ELSE candidates[i]
    /\ epc = "returned" =>
          /\ out = Kept([i \in Idx |-> Expected(i)])
          /\ \A a, b \in 1..Len(out) : a < b => out[a].url < out[b].url

\* C4 witness: the second candidate completed first, and its accepted
\* result was written to the second record while the first is still pending.
C4_Witness ==
    /\ epc = "mt"
    /\ 2 \in collected
    /\ 1 \notin collected
    /\ ~products[2].skip
    /\ products[2].name # None

\* C5: an exception of one fetch task never leaves enrich_products: it
\* returns, and by then every candidate has been fetched, in both paths.
C5_FailureIsolated ==
    /\ epc # "raised"
    /\ epc = "returned" => \A i \in Idx : AttemptsDone(i) /\ fetch[i].attempts >= 1

\* C5 witness: enrich_products returned after one task raised an exception
\* other than an automation error and another task was accepted.
C5_Witness ==
    /\ epc = "returned"
    /\ \E i, j \in Idx :
          /\ fetch[i].outcome = "exception"
          /\ fetch[j].outcome = "accepted"

\* C6 (as claimed): every accepted record, as returned by
\* fetch_product_detail with skip False and kept by enrich_products, has a
\* name.
C6_AcceptedHasName ==
    /\ \A i \in Idx :
          (fetch[i].result.kind = "return" /\ ~fetch[i].result.detail.skip)
             => fetch[i].result.detail.name # None
    /\ epc = "returned" => \A k \in 1..Len(out) : out[k].name # None

C8_FailsOnlyWhenExhausted ==
    (nav.result \in {"error", "timeout"} /\ nav.tried # {}) => nav.tried = PlpIdx

\* C9: when navigate_to_laptops raised, run_scrape goes to its finally and
\* out: no filter was attempted, no listing harvested, no detail fetch
\* submitted or session opened, nothing written.
C9_NavigationFailureAborts ==
    raised = "navigate_to_laptops" =>
       /\ pc \in {"finally", "aborted"}
       /\ flt = Flt0
       /\ hv = Hv0
       /\ products = <<>>
       /\ epc = "idle"
       /\ fetch = <<>>
       /\ written = NotWritten

\* C9 witness: run_scrape aborted after every entry URL timed out.
C9_Witness ==
    /\ pc = "aborted"
    /\ raised = "navigate_to_laptops"
    /\ nav.result = "timeout"
    /\ nav.tried = PlpIdx
    /\ driver = "quit"

\* C10 (as claimed): apply_filters never raises, whatever fails inside it.
C10_FiltersNeverFail ==
    /\ flt.result # "raised"
    /\ raised # "apply_filters"

\* C11 (as claimed): when the price-range filter was attempted and could not
\* be applied, the run is not aborted: it goes on to the listing.
C11_PriceFailureDegrades ==
    ("price" \in flt.attempted /\ "price" \notin flt.applied)
       => (pc \notin {"finally", "aborted"} /\ flt.result # "raised")

\* The links of the first m pages of the fixed listing.
FirstPages(m) == UNION {site.pages[k] : k \in 1..m}

\* The URLs of a list of records.
UrlsOf(ps) == {ps[k].url : k \in 1..Len(ps)}

\* list_products returned, and every page it opened was ready in time (the
\* cp= strategy reads its first page without opening it).
EveryPageLoaded ==
    /\ hv.mode = "returned"
    /\ hv.navigations = hv.visited_pages - (IF Len(hv.known) > 1 THEN 0 ELSE 1)

Smallest(S, n) == {u \in S : Cardinality({v \in S : v < u}) < n}

\* C13 (as claimed): when more than max_products distinct URLs were
\* harvested, list_products returns exactly the max_products smallest of
\* them, so the same set on every run over the same harvest.
C13_TruncationSmallest ==
    [][(/\ pc = "list"
        /\ hv.mode = "done"
        /\ hv'.mode = "returned"
        /\ Cardinality(hv.all_urls) > max_products)
          => UrlsOf(products') = Smallest(hv.all_urls, max_products)]_vars

\* The normal form of a URL: its path with the query parameters sorted (as
\* a set) and no fragment.
Normalized(u) == [style |-> u.style, query |-> {u.query[k] : k \in 1..Len(u.query)}]

\* C14 (as claimed): the harvested set never holds two URLs that are equal
\* after normalization.
C14_NoNormalizedDuplicates ==
    \A a, b \in hv.all_urls : Normalized(a) = Normalized(b) => a = b

\* C15: a harvest whose extracted links are all in the running set already
\* (a page shown again, or a next/load-more click showing the same cards)
\* leaves the set as it was; in general a harvest adds exactly the links
\* that were not in the set.
C15_RevisitAddsNothing ==
    [][(pc = "list" /\ hv'.extractions > hv.extractions)
          => /\ hv'.new \subseteq hv.all_urls => hv'.all_urls = hv.all_urls
             /\ Cardinality(hv'.all_urls) - Cardinality(hv.all_urls)
                   = Cardinality(hv'.new \ hv.all_urls)]_vars

\* C15 witness: a second harvest showed cards and added no link.
C15_Witness ==
    /\ pc = "list"
    /\ hv.extractions >= 2
    /\ hv.new # {}
    /\ hv.new \subseteq hv.all_urls
    /\ Cardinality(hv.all_urls) = hv.before

\* C16 (as claimed): a run that got its browser session and ended without
\* returning was aborted by a navigation failure and wrote nothing; no
\* exception of the seeding, filter, harvest or detail-fetch phase ever
\* leaves run_scrape.
C16_OnlyNavigationAborts ==
    /\ (pc = "aborted" /\ driver # "none")
          => (raised = "navigate_to_laptops" /\ written = NotWritten)
    /\ raised \notin {"seed_location", "apply_filters", "list_products", "enrich_products"}

\* The URLs of the candidates whose fetch was started, and of those whose
\* fetch was accepted.
Fetched == {candidates[i].url : i \in {j \in Idx : fetch[j].attempts >= 1}}
Accepted == {candidates[i].url : i \in {j \in Idx : fetch[j].outcome = "accepted"}}

\* C17: the list list_products returns is drawn from the harvested set, has
\* at most max_products entries and no URL twice; it is the list handed to
\* enrich_products; the fetched candidates are among it, the accepted ones
\* among the fetched, and the returned and written records are the accepted
\* ones.
C17_SubsetChain ==
    /\ [](/\ hv.mode = "returned" =>
                /\ Len(products) <= max_products
                /\ Cardinality(UrlsOf(products)) = Len(products)
                /\ UrlsOf(products) = hv.all_urls
          /\ epc # "idle" =>
                /\ Len(candidates) <= max_products
                /\ Cardinality(UrlsOf(candidates)) = Len(candidates)
                /\ Accepted \subseteq Fetched
                /\ Fetched \subseteq UrlsOf(candidates)
                /\ epc = "returned" => UrlsOf(out) = Accepted
          /\ pc = "returned" => UrlsOf(written.items) = Accepted)
    /\ [][/\ (hv.mode = "done" /\ hv'.mode = "returned")
                => UrlsOf(products') \subseteq hv.all_urls
          /\ (pc = "finally" /\ pc' = "enrich") => candidates' = products]_vars

\* C17 witness: a run returned after the listing gave max_products = 2
\* candidates, both were fetched and one of them was accepted.
C17_Witness ==
    /\ pc = "returned"
    /\ max_products = 2
    /\ Len(candidates) = 2
    /\ Cardinality(Fetched) = 2
    /\ Cardinality(Accepted) = 1
    /\ UrlsOf(written.items) = Accepted

\* C18: with 0 <= min <= max, every delay the rate limiter applied lies in
\* [min, max]; with min = max = 0 every delay is 0.
C18_DelayWithinBounds ==
    \A i \in Idx : \A k \in 1..Len(fetch[i].delays) :
       /\ (0 <= SETTINGS.rate_limit_min_s
              /\ SETTINGS.rate_limit_min_s <= SETTINGS.rate_limit_max_s)
            => /\ fetch[i].delays[k] >= SETTINGS.rate_limit_min_s
               /\ fetch[i].delays[k] <= SETTINGS.rate_limit_max_s
       /\ (SETTINGS.rate_limit_min_s = 0 /\ SETTINGS.rate_limit_max_s = 0)
            => fetch[i].delays[k] = 0

\* C18 witness: a retried fetch was throttled twice under bounds min < max,
\* once by min and once by max.
C18_Witness ==
    \E i \in Idx :
       /\ fetch[i].pc = "done"
       /\ SETTINGS.rate_limit_min_s < SETTINGS.rate_limit_max_s
       /\ fetch[i].delays = <<SETTINGS.rate_limit_min_s, SETTINGS.rate_limit_max_s>>

\* C19 (as claimed): whatever step of seed_location fails, the run goes on
\* to the entry-URL navigation: no exception of seed_location leaves
\* run_scrape.
C19_SeedingNonFatal ==
    /\ raised = "seed_location" => pc \notin {"finally", "aborted"}
    /\ (pc \in {"finally", "aborted"} /\ driver # "none") => page # "blank"

\* A configuration that fails the range checks: a minimum above its
\* maximum, or a negative cap.
Invalid(S) ==
    \/ S.rate_limit_min_s > S.rate_limit_max_s
    \/ S.max_pages < 0
    \/ S.max_products < 0

\* C20 (as claimed): under a configuration that fails the range checks no
\* page is ever navigated to and no detail fetch is ever attempted.
C20_InvalidConfigRejected ==
    Invalid(SETTINGS) =>
       /\ page \in {"closed", "blank"}
       /\ nav.tried = {}
       /\ hv.navigations = 0
       /\ \A i \in Idx : fetch[i].attempts = 0

\* C21 (as claimed): when navigate_to_laptops has returned, the page shown
\* is a listing (a landmark is there and the country splash is not), and the
\* entry URLs navigated to are the first ones of PLP_URLS up to the one that
\* succeeded.
C21_ReadyIsListing ==
    nav.result = "ready" =>
       /\ page = "listing"
       /\ nav.tried = 1..nav.pos

\* The number of times entry URL k took the splash detour.
Detours(k) == Cardinality({j \in 1..Len(nav.detours) : nav.detours[j] = k})

\* C22: an entry URL attempt takes the splash detour at most once, and only
\* an attempted URL takes it; after the detour of the URL now at hand the
\* attempt is over (navigate_to_laptops returned or raised) or the loop has
\* moved on to the next URL.
C22_OneDetourPerAttempt ==
    /\ \A k \in PlpIdx : Detours(k) <= 1
    /\ \A j \in 1..Len(nav.detours) : nav.detours[j] \in nav.tried
    /\ (nav.pos \in PlpIdx /\ Detours(nav.pos) = 1) => nav.result # "none"

\* C22 witness: the first entry URL took the detour, its re-check timed out,
\* and the second one took it too and succeeded.
C22_Witness ==
    /\ nav.detours = <<1, 2>>
    /\ nav.result = "ready"
    /\ nav.pos = 2

\* C23 (as claimed): in a run of list_products neither the number of
\* harvest_current extractions nor the number of page navigations exceeds
\* the configured page cap (a cap of at least one page).
C23_PageViewsWithinCap ==
    SETTINGS.max_pages >= 1 =>
       /\ hv.extractions <= SETTINGS.max_pages
       /\ hv.navigations <= SETTINGS.max_pages

\* C24 (as claimed): once the candidate set has reached the advertised
\* total, list_products opens no further listing page and extracts no
\* further links, under either strategy.
C24_StopsAtTotalHint ==
    [][(/\ pc = "list"
        /\ hv.total_hint # None
        /\ Cardinality(hv.all_urls) >= hv.total_hint)
          => /\ hv'.navigations = hv.navigations
             /\ hv'.extractions = hv.extractions]_vars

\* A step of list_products in which a page was opened and its readiness
\* check timed out (nothing was extracted, no exception left the function).
ReadinessTimedOut ==
    /\ pc = "list"
    /\ pc' = "list"
    /\ raised' = raised
    /\ hv'.navigations = hv.navigations + 1
    /\ hv'.extractions = hv.extractions

\* C25 (as claimed): a readiness timeout on a listing page keeps the links
\* collected so far and only skips that page: the loop goes on to the next
\* page (where the caps are tested again), under the page-tab strategy and,
\* when the page cap allows a further page, under the cp= strategy.
C25_TimeoutSkipsOnePage ==
    [][ReadinessTimedOut =>
          /\ hv'.all_urls = hv.all_urls
          /\ (hv.mode = "tabs" \/ hv.i < max_pages)
                => (hv'.mode = hv.mode /\ hv'.i = hv.i + 1)]_vars

\* The cp= loop is still running after a pass that ended with zero net-new
\* links; the pass would have ended the loop had the load-more/next click
\* failed, so the click succeeded and the harvest after it added nothing.
FruitlessClick ==
    /\ pc = "list"
    /\ hv.mode = "cp"
    /\ hv.visited_pages >= 1
    /\ Cardinality(hv.all_urls) = hv.before

\* C26 (as claimed): in the cp= strategy the load-more/next control is tried
\* at most once per page (a pass extracts at most twice), and after a click
\* that still left zero net-new links no further cp= page is opened or
\* harvested.
C26_StopsAfterFruitlessClick ==
    [][/\ (pc = "list" /\ hv.mode = "cp") => hv'.extractions <= hv.extractions + 2
       /\ FruitlessClick
             => /\ hv'.navigations = hv.navigations
                /\ hv'.extractions = hv.extractions]_vars

\* C27 (as claimed): a detail-fetch task that is releasing or has released
\* its gate permit (or, sequentially, is done) has no session of its own
\* left open, and after enrich_products has returned no detail session is
\* open at all.
C27_SessionsClosedBeforeRelease ==
    /\ \A i \in Idx :
          fetch[i].pc \in {"release", "done"} =>
             /\ fetch[i].drivers = {}
             /\ \A k \in 1..max_attempts : <<i, k>> \notin remote.orphans
    /\ epc = "returned" => (OpenDetailSessions = {} /\ remote.orphans = {})

\* C28: the listing session is never shared with the detail-fetch phase.
\* Once run_scrape has a listing driver, every way out of the listing phase
\* (into enrich_products, or aborted by an exception of seeding, navigation,
\* filtering or harvesting) has quit it, and whenever a detail-fetch task has
\* started or holds a session the listing driver is already quit.
C28_ListingDriverQuitFirst ==
    /\ pc \in {"enrich", "returned"} => driver = "quit"
    /\ (pc = "aborted" /\ raised # "_build_driver") => driver = "quit"
    /\ (OpenDetailSessions # {} \/ \E i \in Idx : fetch[i].pc # "queued")
          => (driver = "quit" /\ page = "closed")
    /\ driver = "quit" => pc \in {"enrich", "returned", "aborted"}

C28_Witness ==
    /\ pc = "enrich"
    /\ hv.mode = "none"
    /\ Cardinality(OpenDetailSessions) >= 1
    /\ driver = "quit"

\* C29: a detail page that fails the category validation yields a skip
\* record in which nothing was extracted (every field but the URL is None),
\* the validation failure is final (no further attempt is made and no
\* further session is opened for that candidate), and once the result is
\* merged the candidate record still has its seed fields, with only the
\* skip mark added.
C29_ValidationSkipIsFinal ==
    [][\A i \in Idx :
          fetch'[i].outcome = "not_laptop" =>
             /\ fetch'[i].result.kind = "return"
             /\ fetch'[i].result.detail.skip
             /\ fetch'[i].result.detail.name = None
             /\ fetch'[i].result.detail.url = candidates[i].url
             /\ fetch[i].outcome = "not_laptop" =>
                   /\ fetch'[i].attempts = fetch[i].attempts
                   /\ fetch'[i].drivers \subseteq fetch[i].drivers
                   /\ fetch'[i].result = fetch[i].result
             /\ i \in collected' => products'[i] = [candidates[i] EXCEPT !.skip = TRUE]
             /\ epc' = "returned" => \A j \in 1..Len(out') : out'[j].url # candidates[i].url]_vars

C29_Witness ==
    /\ epc = "returned"
    /\ \E i \in Idx :
          /\ fetch[i].outcome = "not_laptop"
          /\ fetch[i].attempts = 1
          /\ i \in collected
          /\ products[i].skip
    /\ Len(out) >= 1

\* C30: with multithreading disabled or a worker count of 1 (or below, which
\* reads as 1) enrich_products takes the sequential path; there at most one
\* candidate is being fetched at any time, a candidate is started only after
\* every earlier one has finished all its attempts and been merged, no gate
\* is used, and the returned list is the same function of the per-candidate
\* results as in the multithreaded path: the kept records in harvest order.
C30_SequentialWhenSingle ==
    /\ (~SETTINGS.enable_multithreading \/ SETTINGS.threads <= 1) => epc # "mt"
    /\ epc = "seq" =>
          /\ Cardinality(Running) <= 1
          /\ \A i, j \in Idx :
                (i < j /\ fetch[j].pc # "queued") => (AttemptsDone(i) /\ i \in collected)
          /\ \A i \in Idx : fetch[i].pc \notin {"gate", "release"}
          /\ gate = 0
    /\ epc = "returned" => out = Kept([i \in Idx |-> Expected(i)])

C30_Witness ==
    /\ epc = "seq"
    /\ SETTINGS.enable_multithreading
    /\ SETTINGS.threads = 1
    /\ Len(candidates) = 2
    /\ 1 \in collected
    /\ fetch[1].attempts = max_attempts
    /\ fetch[2].pc = "body"

\* C31: each candidate's result slot is written at most once and never
\* revised.  A step changes at most the one record whose task's outcome it
\* records (no two tasks write the same index), a record stays as seeded
\* until then, and a record whose outcome has been recorded is never changed
\* again.
C31_SlotWrittenOnce ==
    [][/\ collected \subseteq collected'
       /\ Cardinality(collected' \ collected) <= 1
       /\ \A i \in Idx :
             /\ i \in collected => products'[i] = products[i]
             /\ i \notin collected' => products'[i] = candidates[i]
             /\ products'[i] # products[i] => (i \in collected' \ collected /\ AttemptsDone(i))]_vars

C31_Witness ==
    /\ epc = "mt"
    /\ Len(candidates) = 2
    /\ collected = {1, 2}
    /\ products[1].skip
    /\ ~products[2].skip
    /\ products[2].name # None

\* C32: every call of fetch_product_detail that returns a result, the first
\* attempt or the retry, is followed by exactly one throttle delay: a
\* finished task whose calls returned has as many delays as attempts (two
\* when it retried), one whose last attempt raised has none, and a delay is
\* only ever added by the wrapper of a call that is returning a result (no
\* other step of the pool sleeps under the rate limiter).
C32_ThrottleOncePerReturn ==
    [][\A i \in Idx :
          /\ Len(fetch'[i].delays) <= fetch'[i].attempts
          /\ AttemptsDone(i) =>
                Len(fetch[i].delays) =
                   IF fetch[i].result.kind = "return" THEN fetch[i].attempts ELSE 0
          /\ fetch'[i].delays # fetch[i].delays =>
                /\ fetch[i].pc = "throttle"
                /\ fetch[i].result.kind = "return"
                /\ Len(fetch'[i].delays) = Len(fetch[i].delays) + 1]_vars

C32_Witness ==
    \E i \in Idx :
       /\ AttemptsDone(i)
       /\ fetch[i].attempts = 2
       /\ fetch[i].outcome = "accepted"
       /\ Len(fetch[i].delays) = 2

\* The brands the loop of apply_filters has been through.
BrandsBefore(b) == {top_brands[k] : k \in 1..(b - 1)}

\* C33: the rating toggle and the brand toggles are best-effort and
\* independent.  Whatever subset of them was applied, the brand loop is at
\* brand b only with the rating toggle and every earlier brand attempted,
\* the price step is reached only with the rating toggle and every brand
\* attempted, and apply_filters returns only with the price step attempted
\* too; a brand that could not be applied had its fallback selector tried,
\* and a fallback selector is tried only for a brand that was attempted.
C33_TogglesBestEffort ==
    pc \in {"filters", "list"} =>
       /\ (flt.step = "brand" /\ flt.result = "none") =>
             flt.attempted = {"rating"} \cup BrandsBefore(flt.b)
       /\ (flt.step = "price" /\ flt.result = "none") =>
             flt.attempted = {"rating"} \cup BrandsBefore(Len(top_brands) + 1)
       /\ flt.result = "returned" =>
             flt.attempted = {"rating", "price"} \cup BrandsBefore(Len(top_brands) + 1)
       /\ flt.applied \subseteq flt.attempted
       /\ flt.fallbacks \subseteq flt.attempted \ {"rating", "price"}
       /\ \A k \in 1..Len(top_brands) :
             (top_brands[k] \in flt.attempted \ flt.applied) => top_brands[k] \in flt.fallbacks

C33_Witness ==
    /\ pc = "list"
    /\ flt.result = "returned"
    /\ flt.applied = {"price"}
    /\ flt.fallbacks = BrandsBefore(Len(top_brands) + 1)
    /\ flt.attempted = {"rating", "price"} \cup BrandsBefore(Len(top_brands) + 1)

\* C34: the detail-fetch pool never deadlocks.  For every worker count
\* W >= 1 and gate size C >= 1, also C > W, enrich_products eventually
\* returns; by then every submitted task has run and finished, no task is
\* waiting for or holding a permit, and the gate of the multithreaded path
\* has all its C permits again; until then the permits in the gate and the
\* permits held by tasks always add up to C.
C34_PoolTerminates ==
    /\ <>(epc = "returned")
    /\ [](epc = "returned" =>
            /\ \A i \in Idx : AttemptsDone(i) /\ fetch[i].attempts >= 1
            /\ Multithreaded => gate = max_parallel)
    /\ [](epc = "mt" =>
            /\ gate >= 0
            /\ gate + Cardinality({i \in Idx : fetch[i].pc \notin {"queued", "gate", "done"}})
                  = max_parallel)

C34_Witness ==
    /\ epc = "returned"
    /\ SETTINGS.threads = 2
    /\ SETTINGS.max_parallel_browsers = 3
    /\ gate = 3
    /\ \E i, j \in Idx :
          /\ fetch[i].outcome = "accepted"
          /\ fetch[j].outcome = "exception"

\* C35 (as claimed): a candidate one of whose attempts ended with an
\* exception other than an automation error has been attempted exactly once.
C35_OtherExceptionAfterOneAttempt ==
    \A i \in Idx : fetch[i].outcome = "exception" => fetch[i].attempts = 1

\* C35 (amended): only automation errors are retried.  The attempt count of
\* a task goes up only by the retry of a first attempt that has produced no
\* result (never after an attempt ended with another exception, and never
\* after a second attempt); an attempt that ends with another exception is
\* the task's last, whether it is the first attempt or the retry of an
\* automation error, so the candidate has had as many attempts as the number
\* of the attempt that raised, and enrich_products marks it skipped and drops
\* it; a task ends as failed by automation errors only after exactly one
\* second attempt.
C35_OnlyAutomationErrorsRetried ==
    [][\A i \in Idx :
          /\ fetch'[i].attempts # fetch[i].attempts =>
                \/ fetch[i].attempts = 0 /\ fetch'[i].attempts = 1
                \/ /\ fetch[i].attempts = 1 /\ fetch'[i].attempts = 2
                   /\ fetch[i].frame = 1 /\ fetch'[i].frame = 2
                   /\ fetch[i].pc \in {"build", "body"}
                   /\ fetch[i].outcome = "none" /\ fetch'[i].outcome = "none"
          /\ (fetch[i].outcome = "none" /\ fetch'[i].outcome = "exception") =>
                /\ fetch'[i].attempts = fetch[i].frame
                /\ fetch'[i].result = Raised("Exception")
          /\ fetch[i].outcome = "exception" =>
                /\ fetch'[i].outcome = "exception"
                /\ fetch'[i].attempts = fetch[i].attempts
                /\ fetch'[i].drivers \subseteq fetch[i].drivers
                /\ i \in collected' => products'[i] = [candidates[i] EXCEPT !.skip = TRUE]
                /\ epc' = "returned" =>
                      \A k \in 1..Len(out') : out'[k].url # candidates[i].url
          /\ fetch'[i].outcome = "wde_exhausted" => fetch'[i].attempts = 2]_vars

C35_Witness ==
    /\ epc = "returned"
    /\ out = <<>>
    /\ \E i \in Idx :
          /\ fetch[i].outcome = "exception"
          /\ fetch[i].attempts = 2
          /\ i \in collected
          /\ products[i].skip

====
